---- MODULE Spec2Model ----
(***************************************************************************)
(* ParcelX server: the payment confirmation and reconciliation flow        *)
(* (POST /payments/confirm) with the parcel operations that share its      *)
(* stores (POST /parcels, DELETE /parcels/:id).                            *)
(*                                                                         *)
(* The repository holds two revisions of the server, src/server.js and     *)
(* src/unnamed/part_000.  They differ inside the confirm handler: only     *)
(* part_000 cross-checks amount and currency, only part_000 answers 404    *)
(* when the parcel update matched nothing, and the two re-fetch the parcel *)
(* differently.  The variable revision says which file is deployed; it is  *)
(* chosen in Init and never changes.                                       *)
(*                                                                         *)
(* A handler runs from one await to the next without interruption, so each *)
(* action below is one such segment: the store or gateway call it awaited  *)
(* together with the code that follows it up to the next await.            *)
(*                                                                         *)
(* Parcel documents carry only the fields the handlers read or write by    *)
(* name (_id, paymentStatus); the timestamps of a parcel and the shipment  *)
(* fields copied from the request body are not read by any handler.        *)
(***************************************************************************)
EXTENDS Integers, Sequences, FiniteSets, TLC

VARIABLES
  revision,      \* which source file is deployed
  scanOrder,     \* the parcel store's order among documents matching an $or
  parcels,       \* parcelsCollection: _id -> paymentStatus, or "absent"
  issuedOids,    \* ObjectIds the driver has generated so far
  payments,      \* paymentsCollection: a sequence of ledger documents
  intentStatus,  \* the gateway: payment-intent id -> status
  clock,         \* new Date(): advances when a confirm request arrives
  confirm,       \* per request: the locals of the /payments/confirm handler
  chain,         \* history: the run of identical confirm requests under way
  raced          \* history: the latest request arrived while another one
                 \* for the same payment-intent and parcel was running

vars == <<revision, scanOrder, parcels, issuedOids, payments, intentStatus,
          clock, confirm, chain, raced>>

----------------------------------------------------------------------------
(* Bounds *)

\* Confirm requests that arrive in one behaviour.
MaxConfirms == 2

----------------------------------------------------------------------------
(* Values *)

Revisions == {"server.js", "part_000"}

\* "ab" and "AB" stand for the lower- and upper-case spelling of one 24-digit
\* hex string, "P1" for a legacy id that is no hex string.
HexStrings == {"ab", "AB"}
LegacyStrings == {"P1"}

\* ObjectId.isValid(id) for a string
ObjectIdIsValid(id) == id \in HexStrings

\* new ObjectId(id): the 12 bytes the hex digits spell, whatever their case
HexLower(s) == IF s = "AB" THEN "ab" ELSE s

OidKey(h) == [type |-> "ObjectId", value |-> h]
StrKey(s) == [type |-> "string", value |-> s]
NoKey == [type |-> "none", value |-> ""]

NewObjectId(id) == OidKey(HexLower(id))

\* The _id values a parcel document can have in this model.
OidPool == {"ab"}
BodyIds == {"ab", "P1"}
ParcelKeys == {OidKey(h) : h \in OidPool} \cup {StrKey(s) : s \in BodyIds}

JsNull == "<null>"

\* a || b for strings: "" is the falsy (absent) string
OrElse(a, b) == IF a # "" /\ a # "<undefined>" THEN a ELSE b

\* String.prototype.toLowerCase on the currency codes used here
ToLowerCase(s) ==
  CASE s = "USD" -> "usd"
    [] s = "EUR" -> "eur"
    [] OTHER -> s

\* An optional number: <<>> is undefined, <<n>> is the number n.
Undefined == <<>>
Num(n) == <<n>>

\* A string field the request body does not carry.
UndefinedStr == "<undefined>"

\* JavaScript truthiness of an optional number and of a string
TruthyNum(x) == x # Undefined /\ x[1] # 0
TruthyStr(s) == s # "" /\ s # UndefinedStr

----------------------------------------------------------------------------
(* The gateway's payment-intents *)

PaymentIntentIds == {"pi_1", "pi_2"}

IntentAmount(id) == IF id = "pi_1" THEN 1500 ELSE 900
IntentCurrency(id) == IF id = "pi_1" THEN "usd" ELSE "eur"
IntentPayerEmail(id) == IF id = "pi_1" THEN "meta@x" ELSE ""

NoIntent ==
  [id |-> "", status |-> "", amount |-> 0, currency |-> "", payerEmail |-> ""]

\* stripe.paymentIntents.retrieve(id) when the call completes
Retrieve(id) ==
  [id |-> id, status |-> intentStatus[id], amount |-> IntentAmount(id),
   currency |-> IntentCurrency(id), payerEmail |-> IntentPayerEmail(id)]

----------------------------------------------------------------------------
(* Store primitives *)

Exists(k) == k \in ParcelKeys /\ parcels[k] # "absent"

\* Mutant: a single clause, the ObjectId when the id is a valid one.
SingleFormFilter(parcelId) ==
  IF ObjectIdIsValid(parcelId)
  THEN <<NewObjectId(parcelId)>> ELSE <<StrKey(parcelId)>>

\* Mutant: the literal string clause alone.
LiteralFilter(parcelId) == <<StrKey(parcelId)>>

\* orFilter: the clauses of the lookup predicate, in the order pushed
OrFilter(parcelId) ==
  (IF ObjectIdIsValid(parcelId) THEN <<NewObjectId(parcelId)>> ELSE <<>>)
    \o <<StrKey(parcelId)>>

Clauses(filter) == {filter[i] : i \in DOMAIN filter}

Rank(k) ==
  IF (scanOrder = "ObjectIdFirst") = (k.type = "ObjectId") THEN 0 ELSE 1

\* The one document updateOne / findOne acts on: the first match in the
\* store's scan order, NoKey when nothing matches.
FirstMatch(filter) ==
  LET hits == {k \in Clauses(filter) : Exists(k)}
  IN IF hits = {} THEN NoKey
     ELSE CHOOSE k \in hits : \A j \in hits : Rank(k) <= Rank(j)

\* parcelsCollection.updateOne(filter, {$set: {paymentStatus: "Paid", ...}})
MarkPaid(filter) ==
  LET k == FirstMatch(filter)
  IN IF k = NoKey THEN parcels ELSE [parcels EXCEPT ![k] = "Paid"]

NoParcel == [key |-> NoKey, paymentStatus |-> "absent"]

\* parcelsCollection.findOne(filter)
FindOne(filter) ==
  LET k == FirstMatch(filter)
  IN IF k = NoKey THEN NoParcel ELSE [key |-> k, paymentStatus |-> parcels[k]]

Hits(docs, id) == {i \in DOMAIN docs : docs[i].paymentIntentId = id}

\* The unique index on paymentIntentId: an insert of a second document with
\* the same paymentIntentId fails with E11000.
InsertOne(docs, doc) ==
  IF Hits(docs, doc.paymentIntentId) # {}
  THEN [docs |-> docs, err |-> "E11000"]
  ELSE [docs |-> Append(docs, doc), err |-> ""]

\* Mutant: insertOne in place of the upsert.
InsertInsteadOfUpsert(docs, id, setOnInsertDoc, setDoc) ==
  InsertOne(docs, setOnInsertDoc @@ setDoc)

\* Mutant: an insert whenever called, on a collection without the unique index.
UpsertAppends(docs, id, setOnInsertDoc, setDoc) ==
  [docs |-> Append(docs, setOnInsertDoc @@ setDoc), err |-> ""]

\* Mutant: the amount is added to the entry's amount instead of set.
UpsertAddsAmount(docs, id, setOnInsertDoc, setDoc) ==
  LET hits == Hits(docs, id)
  IN IF hits # {}
     THEN LET i == CHOOSE j \in hits : \A m \in hits : j <= m
          IN [docs |-> [docs EXCEPT ![i].amount = @ + setDoc.amount],
              err |-> ""]
     ELSE InsertOne(docs, setOnInsertDoc @@ setDoc)

\* Mutant: every field is written with $set, also on an entry that exists.
UpsertSetsAll(docs, id, setOnInsertDoc, setDoc) ==
  LET hits == Hits(docs, id)
  IN IF hits # {}
     THEN LET i == CHOOSE j \in hits : \A m \in hits : j <= m
          IN [docs |-> [docs EXCEPT ![i] = setOnInsertDoc @@ setDoc],
              err |-> ""]
     ELSE InsertOne(docs, setOnInsertDoc @@ setDoc)

\* Mutant: the filter of the upsert is empty, so any entry matches it.
UpsertAnyEntry(docs, id, setOnInsertDoc, setDoc) ==
  IF docs # <<>>
  THEN [docs |-> [docs EXCEPT ![1] =
                    [f \in DOMAIN docs[1] |->
                       IF f \in DOMAIN setDoc THEN setDoc[f] ELSE docs[1][f]]],
        err |-> ""]
  ELSE InsertOne(docs, setOnInsertDoc @@ setDoc)

\* paymentsCollection.updateOne({paymentIntentId: id},
\*   {$setOnInsert: setOnInsertDoc, $set: setDoc}, {upsert: true}):
\* one atomic store operation.
UpsertOne(docs, id, setOnInsertDoc, setDoc) ==
  LET hits == Hits(docs, id)
  IN IF hits # {}
     THEN LET i == CHOOSE j \in hits : \A m \in hits : j <= m
          IN [docs |-> [docs EXCEPT ![i] =
                          [f \in DOMAIN docs[i] |->
                             IF f \in DOMAIN setDoc THEN setDoc[f] ELSE docs[i][f]]],
              err |-> ""]
     ELSE InsertOne(docs, setOnInsertDoc @@ setDoc)

----------------------------------------------------------------------------
(* Request bodies of POST /payments/confirm *)

\* payer: { name, email, country, postal_code }, every field optional
Payers ==
  {[name |-> "", email |-> "", country |-> "", postal_code |-> ""],
   [name |-> "Ann", email |-> "ann@x", country |-> "BD", postal_code |-> "1207"]}

NoPayer == [name |-> "", email |-> "", country |-> "", postal_code |-> ""]

\* Bodies that leave the optional amountInCents and currency out.
Bodies ==
  [parcelId : {"", "ab", "P1"},
   paymentIntentId : {""} \cup PaymentIntentIds,
   amountInCents : {Undefined},
   currency : {UndefinedStr},
   payer : Payers]

\* Bodies that exercise the optional amountInCents and currency.
CheckBodies ==
  [parcelId : {"ab"},
   paymentIntentId : PaymentIntentIds,
   amountInCents : {Undefined, Num(900)},
   currency : {UndefinedStr, "EUR"},
   payer : {NoPayer}]

\* Bodies of requests that confirm one payment-intent for one parcel.
RaceBodies ==
  [parcelId : {"ab"},
   paymentIntentId : {"pi_1"},
   amountInCents : {Undefined},
   currency : {UndefinedStr},
   payer : Payers]

NoBody ==
  [parcelId |-> "", paymentIntentId |-> "", amountInCents |-> Undefined,
   currency |-> UndefinedStr, payer |-> NoPayer]

NoResponse == [status |-> 0, message |-> "", data |-> NoParcel]

Response(status, message) ==
  [status |-> status, message |-> message, data |-> NoParcel]

Requests == {"r1", "r2"}

Running == {"update", "upsert", "fetch"}

Idle ==
  [pc |-> "idle", body |-> NoBody, pi |-> NoIntent, upd |-> NoKey,
   createdAt |-> 0, res |-> NoResponse]

----------------------------------------------------------------------------
(* POST /payments/confirm *)

\* const { ..., currency = "usd", ... } = req.body
DefaultCurrency(currency) == IF currency = UndefinedStr THEN "usd" ELSE currency

\* The 400 for a missing field: its message, "" when both fields are there.
MissingField(rev, body) ==
  IF rev = "server.js"
  THEN IF ~TruthyStr(body.parcelId) \/ ~TruthyStr(body.paymentIntentId)
       THEN "parcelId and paymentIntentId are required" ELSE ""
  ELSE IF ~TruthyStr(body.parcelId) THEN "parcelId is required"
       ELSE IF ~TruthyStr(body.paymentIntentId)
            THEN "paymentIntentId is required" ELSE ""

\* Mutant: the status of the retrieved payment-intent is not looked at.
StatusIgnored(p) == p = NoIntent

\* if (!pi || pi.status !== "succeeded")
NotSucceeded(p) == p = NoIntent \/ p.status # "succeeded"

\* Mutant: the amount is compared also when the body carries none
\* (Number(undefined) is NaN, which differs from every amount).
AmountAlwaysCompared(rev, body, p) ==
  IF rev = "server.js" THEN ""
  ELSE IF body.amountInCents = Undefined \/ body.amountInCents[1] # p.amount
       THEN "Amount mismatch"
       ELSE ""

\* The optional sanity checks, which only part_000 has: the message of the
\* 400, "" when the checks pass.
SanityCheck(rev, body, p) ==
  IF rev = "server.js" THEN ""
  ELSE IF TruthyNum(body.amountInCents) /\ body.amountInCents[1] # p.amount
       THEN "Amount mismatch"
       ELSE IF TruthyStr(DefaultCurrency(body.currency))
               /\ ToLowerCase(DefaultCurrency(body.currency)) # p.currency
            THEN "Currency mismatch"
            ELSE ""

\* upd.matchedCount === 0 answers 404 in part_000 only.
AnswersNotFound(rev, matched) == rev = "part_000" /\ matched = NoKey

\* setOnInsertDoc; only part_000 has the fields country and postalCode.
SetOnInsertDoc(body, p, now) ==
  LET doc == [paymentIntentId |-> p.id,
              parcelId |-> IF ObjectIdIsValid(body.parcelId)
                           THEN NewObjectId(body.parcelId)
                           ELSE StrKey(body.parcelId),
              payerName |-> OrElse(body.payer.name, JsNull),
              payerEmail |-> OrElse(body.payer.email,
                                    OrElse(p.payerEmail, JsNull)),
              createdAt |-> now]
  IN IF revision = "server.js" THEN doc
     ELSE doc @@ [country |-> OrElse(body.payer.country, JsNull),
                  postalCode |-> OrElse(body.payer.postal_code, JsNull)]

\* Mutant: the amount is recorded in major currency units, not in cents.
SetDocMajorUnits(p) ==
  [status |-> p.status, amount |-> p.amount \div 100, currency |-> p.currency]

\* setDoc
SetDoc(p) == [status |-> p.status, amount |-> p.amount, currency |-> p.currency]

\* The predicate of the final re-fetch.
RefetchFilter(rev, parcelId) ==
  IF rev = "server.js" THEN OrFilter(parcelId)
  ELSE IF ObjectIdIsValid(parcelId)
       THEN <<NewObjectId(parcelId)>> ELSE <<StrKey(parcelId)>>

\* The handler of request r sends the response and returns.
Finish(r, response) ==
  confirm' = [confirm EXCEPT ![r].pc = "done", ![r].res = response,
                             ![r].pi = NoIntent, ![r].createdAt = 0]

\* The handler from its entry to the parcel update it awaits: validation,
\* the gateway retrieve and the checks on what it returned.
ConfirmVerify(r, body) ==
  /\ confirm[r].pc \in {"idle", "done"}
  /\ clock < MaxConfirms
  /\ clock' = clock + 1
  /\ UNCHANGED <<revision, scanOrder, parcels, issuedOids, payments, intentStatus>>
  /\ LET fresh == [Idle EXCEPT !.body = body]
         Reject(response) ==
           confirm' = [confirm EXCEPT ![r] =
                         [fresh EXCEPT !.pc = "done", !.res = response]]
     IN IF MissingField(revision, body) # ""
        THEN Reject(Response(400, MissingField(revision, body)))
        ELSE \/ Reject(Response(500, "gateway error"))
             \/ LET p == Retrieve(body.paymentIntentId)
                IN IF NotSucceeded(p)
                   THEN Reject(Response(400, "PaymentIntent not succeeded"))
                   ELSE IF SanityCheck(revision, body, p) # ""
                   THEN Reject(Response(400, SanityCheck(revision, body, p)))
                   ELSE confirm' = [confirm EXCEPT ![r] =
                                     [fresh EXCEPT !.pc = "update", !.pi = p]]

\* parcelsCollection.updateOne(parcelFilter, ...) and the code after it.
ConfirmUpdate(r) ==
  /\ confirm[r].pc = "update"
  /\ UNCHANGED <<revision, scanOrder, issuedOids, payments, intentStatus, clock>>
  /\ \/ /\ UNCHANGED parcels
        /\ Finish(r, Response(500, "store error"))
     \/ LET filter == OrFilter(confirm[r].body.parcelId)
            matched == FirstMatch(filter)
        IN /\ parcels' = MarkPaid(filter)
           /\ IF AnswersNotFound(revision, matched)
              THEN Finish(r, Response(404, "Parcel not found"))
              ELSE confirm' = [confirm EXCEPT ![r].pc = "upsert",
                                              ![r].upd = matched,
                                              ![r].createdAt = clock]

\* Mutant: a failed upsert is compensated by setting the parcel back to Unpaid.
UpsertFailureRollsBack(r) ==
  /\ confirm[r].pc = "upsert"
  /\ UNCHANGED <<revision, scanOrder, issuedOids, intentStatus, clock>>
  /\ \/ /\ UNCHANGED payments
        /\ parcels' = IF Exists(confirm[r].upd)
                       THEN [parcels EXCEPT ![confirm[r].upd] = "Unpaid"]
                       ELSE parcels
        /\ Finish(r, Response(500, "store error"))
     \/ LET c == confirm[r]
            out == UpsertOne(payments, c.pi.id,
                             SetOnInsertDoc(c.body, c.pi, c.createdAt),
                             SetDoc(c.pi))
        IN /\ payments' = out.docs
           /\ UNCHANGED parcels
           /\ IF out.err # ""
              THEN Finish(r, Response(500, out.err))
              ELSE confirm' = [confirm EXCEPT ![r].pc = "fetch"]

\* paymentsCollection.updateOne(..., {upsert: true}) and the code after it.
ConfirmUpsert(r) ==
  /\ confirm[r].pc = "upsert"
  /\ UNCHANGED <<revision, scanOrder, parcels, issuedOids, intentStatus, clock>>
  /\ \/ /\ UNCHANGED payments
        /\ Finish(r, Response(500, "store error"))
     \/ LET c == confirm[r]
            out == UpsertOne(payments, c.pi.id,
                             SetOnInsertDoc(c.body, c.pi, c.createdAt),
                             SetDoc(c.pi))
        IN /\ payments' = out.docs
           /\ IF out.err # ""
              THEN Finish(r, Response(500, out.err))
              ELSE confirm' = [confirm EXCEPT ![r].pc = "fetch"]

\* The re-fetch of the parcel and the 200.
ConfirmFetch(r) ==
  /\ confirm[r].pc = "fetch"
  /\ UNCHANGED <<revision, scanOrder, parcels, issuedOids, payments,
                 intentStatus, clock>>
  /\ \/ Finish(r, Response(500, "store error"))
     \/ Finish(r, [status |-> 200,
                   message |-> "Payment recorded and parcel marked Paid",
                   data |-> FindOne(RefetchFilter(revision,
                                                  confirm[r].body.parcelId))])

\* The process dies, or the caller times out, while the request is running:
\* the request gets no answer and none of its remaining steps run.
Crash(r) ==
  /\ confirm[r].pc \in Running
  /\ Finish(r, Response(0, "no response"))
  /\ UNCHANGED <<revision, scanOrder, parcels, issuedOids, payments,
                 intentStatus, clock>>

----------------------------------------------------------------------------
(* POST /parcels, DELETE /parcels/:id, the gateway *)

ParcelBodies == [id : {UndefinedStr} \cup BodyIds, paymentStatus : {"", "Paid"}]

\* paymentStatus: req.body.paymentStatus || "Unpaid"
NewPaymentStatus(body) == OrElse(body.paymentStatus, "Unpaid")

\* insertOne(newParcel): the driver generates an ObjectId when the body
\* carries no _id; a body _id arrives as a JSON string and is stored as such.
CreateParcel(body) ==
  /\ UNCHANGED <<revision, scanOrder, payments, intentStatus, clock, confirm>>
  /\ IF body.id = UndefinedStr
     THEN \E h \in OidPool \ issuedOids :
            /\ issuedOids' = issuedOids \cup {h}
            /\ parcels' = [parcels EXCEPT ![OidKey(h)] = NewPaymentStatus(body)]
     ELSE /\ UNCHANGED issuedOids
          /\ parcels' = IF Exists(StrKey(body.id)) THEN parcels
                        ELSE [parcels EXCEPT ![StrKey(body.id)] =
                                               NewPaymentStatus(body)]

\* deleteOne({_id: new ObjectId(id)}) after the ObjectId.isValid check.
DeleteParcel(id) ==
  /\ UNCHANGED <<revision, scanOrder, issuedOids, payments, intentStatus,
                 clock, confirm>>
  /\ parcels' = IF ObjectIdIsValid(id) /\ Exists(NewObjectId(id))
                THEN [parcels EXCEPT ![NewObjectId(id)] = "absent"]
                ELSE parcels

\* The payer completes the payment at the gateway.
IntentSucceeds(id) ==
  /\ intentStatus[id] = "requires_payment_method"
  /\ intentStatus' = [intentStatus EXCEPT ![id] = "succeeded"]
  /\ UNCHANGED <<revision, scanOrder, parcels, issuedOids, payments, clock,
                 confirm>>

----------------------------------------------------------------------------
(* History of the requests, kept for the properties only *)

\* A chain is a run of confirm requests with one and the same body: len
\* requests so far, the latest in slot last, oks of them answered 200, after
\* of them begun after the first 200.  partial: one of them stopped between
\* its parcel update and its ledger upsert.  overlap: one of them arrived
\* while a request was running.  disturbed: the chain began while a request
\* with another body was running.  start holds <<parcels, payments>> as the
\* chain began, first as its first 200 was sent.
NoChain ==
  [len |-> 0, last |-> "", oks |-> 0, after |-> 0, partial |-> FALSE,
   overlap |-> FALSE, disturbed |-> FALSE, body |-> NoBody,
   start |-> <<>>, first |-> <<>>]

Busy == \E o \in Requests : confirm[o].pc \in Running

ChainOnArrive(r, body) ==
  IF chain.len >= 1 /\ chain.body = body
  THEN [chain EXCEPT !.len = @ + 1, !.last = r,
                     !.after = IF chain.oks >= 1 THEN @ + 1 ELSE @,
                     !.overlap = @ \/ Busy]
  ELSE [NoChain EXCEPT !.len = 1, !.last = r, !.body = body,
                       !.overlap = Busy, !.disturbed = Busy,
                       !.start = <<parcels, payments>>]

\* The request in state c ends with the response, the stores being ps and ls.
ChainOnFinish(c, response, ps, ls) ==
  IF chain.len = 0 \/ c.body # chain.body THEN chain
  ELSE [chain EXCEPT
          !.oks = IF response.status = 200 THEN @ + 1 ELSE @,
          !.first = IF response.status = 200 /\ chain.oks = 0
                    THEN <<ps, ls>> ELSE @,
          !.partial = @ \/ (c.pc = "upsert" /\ response.status # 200)]

NoHistory == UNCHANGED <<chain, raced>>

\* Request r arrives with the body.
ArrivalHistory(r, body) ==
  /\ chain' = ChainOnArrive(r, body)
  /\ raced' = \E o \in Requests \ {r} :
                 /\ confirm[o].pc \in Running
                 /\ confirm[o].body.parcelId = body.parcelId
                 /\ confirm[o].body.paymentIntentId = body.paymentIntentId

\* Request r takes a later step.
StepHistory(r) ==
  /\ chain' = IF confirm'[r].pc = "done"
               THEN ChainOnFinish(confirm[r], confirm'[r].res, parcels', payments')
               ELSE chain
  /\ UNCHANGED raced

----------------------------------------------------------------------------
(* Specifications *)

Init ==
  /\ revision \in Revisions
  /\ scanOrder \in {"ObjectIdFirst", "StringFirst"}
  /\ parcels = [k \in ParcelKeys |-> "absent"]
  /\ issuedOids = {}
  /\ payments = <<>>
  /\ intentStatus = [id \in PaymentIntentIds |->
                       IF id = "pi_1" THEN "requires_payment_method"
                       ELSE "succeeded"]
  /\ clock = 0
  /\ confirm = [r \in Requests |-> Idle]
  /\ chain = NoChain
  /\ raced = FALSE

\* One client that sends its confirm requests one after the other.
Next ==
  \/ \E body \in Bodies : ConfirmVerify("r1", body) /\ NoHistory
  \/ ConfirmUpdate("r1") /\ NoHistory
  \/ ConfirmUpsert("r1") /\ NoHistory
  \/ ConfirmFetch("r1") /\ NoHistory
  \/ Crash("r1") /\ NoHistory
  \/ \E body \in ParcelBodies : CreateParcel(body) /\ NoHistory
  \/ \E id \in HexStrings \cup LegacyStrings : DeleteParcel(id) /\ NoHistory
  \/ \E id \in PaymentIntentIds : IntentSucceeds(id) /\ NoHistory

Spec == Init /\ [][Next]_vars

\* One client, whose requests carry the optional amountInCents and currency.
NextChecks ==
  \/ \E body \in CheckBodies : ConfirmVerify("r1", body) /\ NoHistory
  \/ ConfirmUpdate("r1") /\ NoHistory
  \/ ConfirmUpsert("r1") /\ NoHistory
  \/ ConfirmFetch("r1") /\ NoHistory
  \/ Crash("r1") /\ NoHistory
  \/ \E body \in ParcelBodies : CreateParcel(body) /\ NoHistory
  \/ \E id \in HexStrings \cup LegacyStrings : DeleteParcel(id) /\ NoHistory
  \/ \E id \in PaymentIntentIds : IntentSucceeds(id) /\ NoHistory

SpecChecks == Init /\ [][NextChecks]_vars

\* Two clients that confirm one payment-intent for one parcel id, their
\* requests one after the other or overlapping in every possible way, with
\* the history of the requests recorded.  The parcels were created and the
\* payment was made at the gateway before the first request arrives.
InitRace ==
  /\ revision \in Revisions
  /\ scanOrder \in {"ObjectIdFirst", "StringFirst"}
  /\ parcels \in [ParcelKeys -> {"absent", "Unpaid", "Paid"}]
  /\ parcels[StrKey("P1")] = "absent"
  /\ issuedOids = {k.value : k \in {j \in ParcelKeys :
                       j.type = "ObjectId" /\ parcels[j] # "absent"}}
  /\ payments = <<>>
  /\ intentStatus = [id \in PaymentIntentIds |-> "succeeded"]
  /\ clock = 0
  /\ confirm = [r \in Requests |-> Idle]
  /\ chain = NoChain
  /\ raced = FALSE

NextRace ==
  \/ \E r \in Requests, body \in RaceBodies :
        ConfirmVerify(r, body) /\ ArrivalHistory(r, body)
  \/ \E r \in Requests : ConfirmUpdate(r) /\ StepHistory(r)
  \/ \E r \in Requests : ConfirmUpsert(r) /\ StepHistory(r)
  \/ \E r \in Requests : ConfirmFetch(r) /\ StepHistory(r)
  \/ \E r \in Requests : Crash(r) /\ StepHistory(r)

SpecRace == InitRace /\ [][NextRace]_vars

\* Two clients, each confirming its own payment-intent for its own parcel,
\* once, their steps interleaved in every possible way.  chain.start keeps
\* the stores as they were before the first request.
PairBody(r) ==
  IF r = "r1"
  THEN [parcelId |-> "ab", paymentIntentId |-> "pi_1",
        amountInCents |-> Undefined, currency |-> UndefinedStr,
        payer |-> CHOOSE p \in Payers : p.name = "Ann"]
  ELSE [parcelId |-> "P1", paymentIntentId |-> "pi_2",
        amountInCents |-> Undefined, currency |-> "EUR", payer |-> NoPayer]

InitPair ==
  /\ revision \in Revisions
  /\ scanOrder \in {"ObjectIdFirst", "StringFirst"}
  /\ parcels \in [ParcelKeys -> {"absent", "Unpaid", "Paid"}]
  /\ issuedOids = {k.value : k \in {j \in ParcelKeys :
                       j.type = "ObjectId" /\ parcels[j] # "absent"}}
  /\ payments = <<>>
  /\ intentStatus = [id \in PaymentIntentIds |-> "succeeded"]
  /\ clock = 0
  /\ confirm = [r \in Requests |-> Idle]
  /\ chain = [NoChain EXCEPT !.start = <<parcels, payments>>]
  /\ raced = FALSE

NextPair ==
  \/ \E r \in Requests :
        confirm[r].pc = "idle" /\ ConfirmVerify(r, PairBody(r)) /\ NoHistory
  \/ \E r \in Requests : ConfirmUpdate(r) /\ NoHistory
  \/ \E r \in Requests : ConfirmUpsert(r) /\ NoHistory
  \/ \E r \in Requests : ConfirmFetch(r) /\ NoHistory
  \/ \E r \in Requests : Crash(r) /\ NoHistory

SpecPair == InitPair /\ [][NextPair]_vars

----------------------------------------------------------------------------
(* Properties *)

\* Ledger entries for one payment-intent id.
Count(id) == Cardinality(Hits(payments, id))

\* The _ids under which a parcel with the id value can be stored: as the
\* canonical object identifier of that value, as the legacy string.
StoredForms(id) == {k \in ParcelKeys : k.value = id}

\* The stored parcel an id resolves to in the stores ps.
Resolved(ps, id) ==
  LET there == {k \in StoredForms(id) : ps[k] # "absent"}
  IN IF there = {} THEN NoKey
     ELSE IF Cardinality(there) = 1 THEN CHOOSE k \in there : TRUE
     ELSE IF scanOrder = "ObjectIdFirst" THEN OidKey(id) ELSE StrKey(id)

\* Answers that report a failed store or gateway call, or no answer at all.
Interrupted(res) ==
  res.message \in {"store error", "gateway error", "no response"}

\* C1 (idempotence): once a confirm has answered 200, a second confirm with
\* the identical body that runs after it, nothing else in between, leaves
\* parcels and ledger at every step exactly as the first call left them: the
\* parcel stays Paid, there is exactly one ledger entry for the
\* payment-intent, and the second call is answered 200 unless a store or
\* gateway call of its own fails; no duplicate-key error reaches the caller.
C1_Idempotent ==
  (chain.after >= 1 /\ ~chain.overlap) =>
    LET c == confirm[chain.last]
    IN /\ <<parcels, payments>> = chain.first
       /\ Count(chain.body.paymentIntentId) = 1
       /\ Resolved(chain.start[1], chain.body.parcelId) # NoKey
            => parcels[Resolved(chain.start[1], chain.body.parcelId)] = "Paid"
       /\ c.pc = "done" => c.res.status = 200 \/ Interrupted(c.res)

C1_Witness ==
  /\ chain.after >= 1 /\ ~chain.overlap
  /\ confirm[chain.last].pc = "done"
  /\ confirm[chain.last].res.status = 200
  /\ Resolved(chain.start[1], chain.body.parcelId) # NoKey
  /\ chain.start[1][Resolved(chain.start[1], chain.body.parcelId)] = "Unpaid"

\* C2 (concurrent confirm race): two requests for the same payment-intent and
\* the same parcel id have overlapped and both have finished.  Then neither
\* was answered with a uniqueness violation, the ledger holds at most one
\* entry for the payment-intent, and if both were answered 200 it holds
\* exactly one, with the gateway's status, amount and currency, and the
\* parcel, if it exists, is Paid.
C2_ConcurrentRace ==
  (raced /\ \A r \in Requests : confirm[r].pc = "done") =>
    LET id == confirm["r1"].body.paymentIntentId
        pid == confirm["r1"].body.parcelId
    IN /\ \A r \in Requests : confirm[r].res.message # "E11000"
       /\ Count(id) <= 1
       /\ (\A r \in Requests : confirm[r].res.status = 200) =>
            /\ Count(id) = 1
            /\ \A i \in Hits(payments, id) :
                  /\ payments[i].status = "succeeded"
                  /\ payments[i].amount = IntentAmount(id)
                  /\ payments[i].currency = IntentCurrency(id)
            /\ (\E k \in StoredForms(pid) : Exists(k))
                  => \E k \in StoredForms(pid) : parcels[k] = "Paid"

C2_Witness ==
  /\ raced
  /\ \A r \in Requests : confirm[r].pc = "done" /\ confirm[r].res.status = 200
  /\ Count("pi_1") = 1
  /\ \E k \in StoredForms("ab") : parcels[k] = "Paid"

\* The ledger a single uninterrupted confirm of the body leaves, begun with
\* the ledger ls: an entry that is there keeps its origin fields and takes the
\* gateway's status, amount and currency; otherwise one entry is added.
ExpectedLedger(ls, body) ==
  LET id == body.paymentIntentId
      old == {i \in DOMAIN ls : ls[i].paymentIntentId = id}
  IN IF old # {}
     THEN [i \in DOMAIN ls |->
             IF i \in old
             THEN [ls[i] EXCEPT !.status = "succeeded",
                                !.amount = IntentAmount(id),
                                !.currency = IntentCurrency(id)]
             ELSE ls[i]]
     ELSE ls \o <<(IF revision = "server.js" THEN <<>>
                   ELSE [country |-> IF body.payer.country = "" THEN JsNull
                                     ELSE body.payer.country,
                         postalCode |-> IF body.payer.postal_code = ""
                                        THEN JsNull
                                        ELSE body.payer.postal_code]) @@
                  [paymentIntentId |-> id,
                   parcelId |-> IF body.parcelId \in HexStrings
                                THEN OidKey(HexLower(body.parcelId))
                                ELSE StrKey(body.parcelId),
                   payerName |-> IF body.payer.name = "" THEN JsNull
                                 ELSE body.payer.name,
                   payerEmail |-> IF body.payer.email # "" THEN body.payer.email
                                  ELSE IF IntentPayerEmail(id) # ""
                                       THEN IntentPayerEmail(id) ELSE JsNull,
                   createdAt |-> 0,
                   status |-> "succeeded",
                   amount |-> IntentAmount(id),
                   currency |-> IntentCurrency(id)]>>

\* The parcels a single uninterrupted confirm of the body leaves, begun with
\* the parcels ps: the parcel the id resolves to is Paid, the others as before.
ExpectedParcels(ps, body) ==
  LET k == Resolved(ps, body.parcelId)
  IN IF k = NoKey THEN ps ELSE [ps EXCEPT ![k] = "Paid"]

\* A ledger without its creation times, which differ from run to run.
Timeless(ls) == [i \in DOMAIN ls |-> [ls[i] EXCEPT !.createdAt = 0]]

\* C9 (retry convergence): a confirm is replayed with the same body until it
\* is answered 200, earlier attempts having stopped anywhere (a failed store
\* or gateway call, a crash, a caller that timed out and replayed while the
\* first attempt still ran).  From the first 200 on, parcels and ledger are
\* those a single uninterrupted confirm would have left, creation time aside:
\* one ledger entry for the payment-intent, no second effect.
C9_RetryConverges ==
  (chain.oks >= 1 /\ ~chain.disturbed) =>
    /\ parcels = ExpectedParcels(chain.start[1], chain.body)
    /\ Timeless(payments) = Timeless(ExpectedLedger(chain.start[2], chain.body))
    /\ Count(chain.body.paymentIntentId) = 1

C9_Witness ==
  /\ chain.oks >= 1 /\ ~chain.disturbed
  /\ chain.partial
  /\ chain.len >= 2
  /\ Resolved(chain.start[1], chain.body.parcelId) # NoKey
  /\ chain.start[1][Resolved(chain.start[1], chain.body.parcelId)] = "Unpaid"

\* C3 (not-found integrity): a confirm whose parcel update matched no parcel
\* goes no further: it never reaches the ledger upsert or the re-fetch, and
\* it is never answered 200.
C3_NotFoundIntegrity ==
  \A r \in Requests :
    /\ confirm[r].pc \in {"upsert", "fetch"} => confirm[r].upd # NoKey
    /\ confirm[r].res.status = 200 => confirm[r].upd # NoKey

\* The body names an amount or a currency other than the payment-intent's.
Disagrees(body) ==
  \/ /\ body.amountInCents # Undefined
     /\ body.amountInCents[1] # IntentAmount(body.paymentIntentId)
  \/ /\ body.currency # UndefinedStr
     /\ ToLowerCase(body.currency) # IntentCurrency(body.paymentIntentId)

\* C4 (mismatch rejection): a confirm whose body names an amount or a currency
\* other than the gateway's is rejected before any write: it never gets to
\* the parcel update, and its answer is the mismatch (or the earlier failure
\* of the verification itself).
C4_MismatchRejected ==
  \A r \in Requests :
    (confirm[r].pc # "idle" /\ Disagrees(confirm[r].body)) =>
      /\ confirm[r].pc = "done"
      /\ confirm[r].res.message \in
           {"Amount mismatch", "Currency mismatch",
            "PaymentIntent not succeeded", "gateway error"}

\* Messages of the answers sent before the gateway has verified the payment.
Unverified ==
  {"parcelId and paymentIntentId are required", "parcelId is required",
   "paymentIntentId is required", "gateway error",
   "PaymentIntent not succeeded"}

\* C5 (verification before mutation): a step of a confirm that writes to the
\* parcels or to the ledger is taken by a request that holds the payment-
\* intent it retrieved for its own paymentIntentId, with status succeeded; and
\* a confirm that ends for a missing field, a gateway failure or a status
\* other than succeeded ends in its first step, which writes nothing.
C5_VerifyBeforeMutation ==
  [][\A r \in Requests :
       /\ (confirm'[r] # confirm[r]
            /\ (parcels' # parcels \/ payments' # payments)) =>
              /\ confirm[r].pc \in Running
              /\ confirm[r].pi.id = confirm[r].body.paymentIntentId
              /\ confirm[r].pi.status = "succeeded"
       /\ (confirm'[r] # confirm[r] /\ confirm'[r].pc = "done"
            /\ confirm'[r].res.message \in Unverified) =>
              /\ clock' = clock + 1
              /\ parcels' = parcels /\ payments' = payments
    ]_vars

C5_Witness ==
  \E r \in Requests :
    /\ confirm[r].pc = "upsert"
    /\ confirm[r].pi.status = "succeeded"
    /\ confirm[r].upd # NoKey
    /\ parcels[confirm[r].upd] = "Paid"
    /\ payments = <<>>

\* C6 (payment-status invariant): a Paid parcel never becomes Unpaid, and a
\* parcel becomes Paid only from Unpaid and only by the parcel update of a
\* confirm that holds a payment-intent with status succeeded.
C6_PaymentStatusInvariant ==
  [][\A k \in ParcelKeys :
       /\ parcels[k] = "Paid" => parcels'[k] # "Unpaid"
       /\ (parcels'[k] = "Paid" /\ parcels[k] # "Paid") =>
            /\ parcels[k] = "Unpaid"
            /\ \E r \in Requests :
                  /\ confirm[r].pc = "update"
                  /\ confirm[r].pi.status = "succeeded"
                  /\ confirm'[r] # confirm[r]
    ]_vars

\* C7 (parcel-paid-first invariant): every ledger entry with status succeeded
\* has a parcel id that refers, in its canonical or its legacy form, to an
\* existing parcel that is Paid.
C7_ParcelPaidFirst ==
  \A i \in DOMAIN payments :
    payments[i].status = "succeeded" =>
      \E k \in StoredForms(payments[i].parcelId.value) : parcels[k] = "Paid"

\* The parcel update of request r has run, the store call itself succeeding.
Updated(r) ==
  /\ confirm[r].pc = "update"
  /\ confirm'[r] # confirm[r]
  /\ ~Interrupted(confirm'[r].res)

\* C8 as claimed (id-form tolerance, both parcels): the parcel update marks
\* every stored form of the id Paid, both of them when both exist, and does
\* not answer 404 when one exists.
C8_BothFormsMarked ==
  [][\A r \in Requests :
       Updated(r) =>
         LET forms == StoredForms(confirm[r].body.parcelId)
         IN /\ \A k \in forms : parcels[k] # "absent" => parcels'[k] = "Paid"
            /\ (\E k \in forms : parcels[k] # "absent")
                 => confirm'[r].res.status # 404
    ]_vars

\* C8 as amended (id-form tolerance): when a parcel is stored under the
\* canonical or under the legacy string form of the id, the parcel update
\* finds one: it marks exactly one stored form Paid, leaves every other
\* parcel as it was, and the confirm goes on to the ledger upsert instead of
\* answering 404.
C8_IdFormTolerance ==
  [][\A r \in Requests :
       (Updated(r)
        /\ \E k \in StoredForms(confirm[r].body.parcelId) : parcels[k] # "absent")
       =>
         /\ confirm'[r].pc = "upsert"
         /\ confirm'[r].upd \in StoredForms(confirm[r].body.parcelId)
         /\ parcels[confirm'[r].upd] # "absent"
         /\ parcels' = [parcels EXCEPT ![confirm'[r].upd] = "Paid"]
    ]_vars

C8_Witness ==
  \E r \in Requests :
    /\ confirm[r].pc = "upsert"
    /\ confirm[r].body.parcelId = "ab"
    /\ confirm[r].upd = StrKey("ab")
    /\ parcels[StrKey("ab")] = "Paid"
    /\ parcels[OidKey("ab")] = "Unpaid"

\* The request was answered, and not with a failure that has nothing to do
\* with the cross-check: the payment was verified, the parcel was found, no
\* store or gateway call failed.
Settled(c) ==
  /\ c.pc = "done"
  /\ ~Interrupted(c.res)
  /\ c.res.message \notin Unverified
  /\ c.res.status # 404

NoCrossCheck(body) ==
  body.amountInCents = Undefined /\ body.currency = UndefinedStr

C11_ResponseMapping ==
  \A r \in Requests :
    LET c == confirm[r]
    IN (c.pc = "done" /\ c.res.message # "no response") =>
         /\ c.res.status \in {200, 400, 404, 500}
         /\ MissingField(revision, c.body) # "" => c.res.status = 400
         /\ c.res.status = 400 =>
              \/ MissingField(revision, c.body) # ""
              \/ c.res.message = "PaymentIntent not succeeded"
              \/ Disagrees(c.body)
              \/ /\ c.body.currency = UndefinedStr
                 /\ IntentCurrency(c.body.paymentIntentId) # "usd"
         /\ c.res.status = 404 => c.upd = NoKey
         /\ c.res.status = 500 => Interrupted(c.res)
         /\ c.res.status = 200 =>
              /\ c.upd # NoKey
              /\ c.res.data # NoParcel

\* The ledger upsert of request r fails in this step.
UpsertFailed(r) ==
  /\ confirm[r].pc = "upsert"
  /\ confirm'[r].pc = "done"
  /\ confirm'[r].res.message = "store error"

\* C12 (accepted partial success): when the ledger upsert of a confirm fails,
\* the caller is answered 500, the parcels stay as the parcel update left
\* them (the parcel it marked, if still there, is Paid) and the ledger is
\* not changed.
C12_PartialSuccess ==
  [][\A r \in Requests :
       UpsertFailed(r) =>
         /\ confirm'[r].res.status = 500
         /\ parcels' = parcels
         /\ payments' = payments
         /\ Exists(confirm[r].upd) => parcels'[confirm[r].upd] = "Paid"
    ]_vars

C12_Witness ==
  \E r \in Requests :
    /\ confirm[r].pc = "done"
    /\ confirm[r].res = Response(500, "store error")
    /\ confirm[r].upd # NoKey
    /\ parcels[confirm[r].upd] = "Paid"
    /\ Count(confirm[r].body.paymentIntentId) = 0

\* The fields a ledger entry gets on insert only, and those set on every call.
OriginFields(rev) ==
  {"paymentIntentId", "parcelId", "payerName", "payerEmail", "createdAt"}
    \cup (IF rev = "part_000" THEN {"country", "postalCode"} ELSE {})

RefreshedFields == {"status", "amount", "currency"}

\* C13 (set-on-insert frame): an entry of the ledger stays in its place and
\* keeps its paymentIntentId, parcelId, payer name, payer email and creation
\* time (and country and postal code where they are recorded) through every
\* step; the documents a confirm hands to the upsert carry exactly the
\* origin fields and the refreshed fields, which share no field.
C13_SetOnInsertFrame ==
  [][/\ \A i \in DOMAIN payments :
          /\ i \in DOMAIN payments'
          /\ \A f \in OriginFields(revision) : payments'[i][f] = payments[i][f]
     /\ \A r \in Requests :
          confirm[r].pc = "upsert" =>
            LET c == confirm[r]
            IN /\ DOMAIN SetOnInsertDoc(c.body, c.pi, c.createdAt)
                    = OriginFields(revision)
               /\ DOMAIN SetDoc(c.pi) = RefreshedFields
               /\ OriginFields(revision) \cap RefreshedFields = {}
    ]_vars

\* A confirm for another parcel id and another payer than the ledger entry
\* of its payment-intent records was answered 200, and the entry is as it was.
C13_Witness ==
  \E r \in Requests, i \in DOMAIN payments :
    /\ confirm[r].pc = "done" /\ confirm[r].res.status = 200
    /\ payments[i].paymentIntentId = confirm[r].body.paymentIntentId
    /\ payments[i].parcelId.value # confirm[r].body.parcelId
    /\ payments[i].payerName # OrElse(confirm[r].body.payer.name, JsNull)


C15_ReturnedParcel ==
  \A r \in Requests :
    confirm[r].res.status = 200 =>
      /\ confirm[r].upd # NoKey
      /\ confirm[r].res.data.key = confirm[r].upd
      /\ confirm[r].res.data.paymentStatus = "Paid"

\* The id strings a confirm can carry.
IdStrings == HexStrings \cup LegacyStrings

\* C16 (identifier resolver shape): for every id string the predicate is the
\* ObjectId of the string followed by the literal string when the string is
\* a valid ObjectId, and the literal string alone otherwise; it matches a
\* stored parcel exactly when a parcel is stored under one of these forms;
\* and a confirm that has run its parcel update matched such a parcel or none.
C16_ResolverShape ==
  /\ \A id \in IdStrings :
        /\ OrFilter(id) = IF ObjectIdIsValid(id)
                          THEN <<OidKey(HexLower(id)), StrKey(id)>>
                          ELSE <<StrKey(id)>>
        /\ (FirstMatch(OrFilter(id)) # NoKey) <=>
             \E k \in ParcelKeys :
                /\ parcels[k] # "absent"
                /\ \/ k = StrKey(id)
                   \/ ObjectIdIsValid(id) /\ k = OidKey(HexLower(id))
  /\ \A r \in Requests :
        LET id == confirm[r].body.parcelId
        IN (confirm[r].pc \in {"upsert", "fetch"} /\ confirm[r].upd # NoKey) =>
             \/ confirm[r].upd = StrKey(id)
             \/ ObjectIdIsValid(id) /\ confirm[r].upd = OidKey(HexLower(id))

\* Both shapes have been applied: a legacy id matched by its single clause
\* while a parcel is also stored under an ObjectId.
C16_Witness ==
  \E r \in Requests :
    /\ confirm[r].pc = "upsert"
    /\ confirm[r].body.parcelId = "P1"
    /\ Len(OrFilter(confirm[r].body.parcelId)) = 1
    /\ confirm[r].upd = StrKey("P1")
    /\ Exists(OidKey("ab"))


\* The entries of a ledger, in no order and without their creation times.
Entries(ls) == {Timeless(ls)[i] : i \in DOMAIN ls}

\* C17 (independence of different payment-intents): two confirms for
\* different payment-intents and different parcels, interleaved in any way.
\* At every step each request has had exactly the effect it has when it runs
\* alone from the initial stores: the parcel it marked is the one its id
\* resolved to at the start, every parcel not marked by a request is as at
\* the start, the ledger holds for each payment-intent nothing or the one
\* entry its own confirm writes, and the answer of a request is the one its
\* own parcel and payment-intent give.  When both were answered 200 the
\* stores are those of running the two one after the other, in either order
\* (entries compared without their position and creation time).
C17_Independent ==
  LET ps0 == chain.start[1]
      ls0 == chain.start[2]
      b1 == PairBody("r1")
      b2 == PairBody("r2")
  IN /\ \A r \in Requests :
          LET c == confirm[r]
              b == PairBody(r)
              own == Resolved(ps0, b.parcelId)
          IN /\ c.upd # NoKey => c.upd = own
             /\ c.pc \in {"upsert", "fetch"} => c.upd = own
             /\ Count(b.paymentIntentId) <= 1
             /\ c.pc \in {"idle", "update", "upsert"}
                  => Count(b.paymentIntentId) = 0
             /\ (c.pc = "fetch" \/ c.res.status = 200)
                  => Count(b.paymentIntentId) = 1
             /\ \A i \in Hits(payments, b.paymentIntentId) :
                  Entries(<<payments[i]>>) = Entries(ExpectedLedger(ls0, b))
             /\ c.res.status = 200 =>
                  c.res.data = FindOne(RefetchFilter(revision, b.parcelId))
             /\ c.res.status = 404 => own = NoKey
             /\ (c.pc = "done" /\ own = NoKey /\ revision = "part_000")
                  => c.res.status # 200
     /\ \A k \in ParcelKeys :
          parcels[k] = IF \E r \in Requests : confirm[r].upd = k
                       THEN "Paid" ELSE ps0[k]
     /\ \A i \in DOMAIN payments :
          \E r \in Requests :
             payments[i].paymentIntentId = PairBody(r).paymentIntentId
     /\ (\A r \in Requests : confirm[r].res.status = 200) =>
          /\ parcels = ExpectedParcels(ExpectedParcels(ps0, b1), b2)
          /\ parcels = ExpectedParcels(ExpectedParcels(ps0, b2), b1)
          /\ Entries(payments) = Entries(ExpectedLedger(ExpectedLedger(ls0, b1), b2))
          /\ Entries(payments) = Entries(ExpectedLedger(ExpectedLedger(ls0, b2), b1))

\* Both requests are past their ledger upsert and not yet answered, each
\* having marked its own parcel, Unpaid at the start.
C17_Witness ==
  /\ \A r \in Requests :
        /\ confirm[r].pc = "fetch"
        /\ confirm[r].upd # NoKey
        /\ chain.start[1][confirm[r].upd] = "Unpaid"
        /\ parcels[confirm[r].upd] = "Paid"
  /\ confirm["r1"].upd # confirm["r2"].upd
  /\ Len(payments) = 2


\* C18 (one payment pays one parcel): a confirm answered 200 that marked a
\* parcel Paid leaves a ledger entry for its payment-intent whose parcel id
\* has the id value of that parcel.
C18_OnePaymentOneParcel ==
  \A r \in Requests :
    (confirm[r].res.status = 200 /\ confirm[r].upd # NoKey) =>
      \E i \in Hits(payments, confirm[r].body.paymentIntentId) :
         payments[i].parcelId.value = confirm[r].upd.value

\* C19 (ledger reference resolves): the parcel id of an entry that the upsert
\* of a confirm inserts is the stored _id, in value and in representation,
\* of the parcel that the update of the same confirm marked Paid.
C19_LedgerReferenceResolves ==
  [][\A r \in Requests :
       (confirm[r].pc = "upsert" /\ confirm'[r].pc = "fetch"
        /\ Len(payments') = Len(payments) + 1
        /\ confirm[r].upd # NoKey)
       => payments'[Len(payments')].parcelId = confirm[r].upd
    ]_vars

\* C20 (confirm against concurrent deletion): a confirm that marked a parcel
\* which DELETE /parcels/:id can remove, one stored under an ObjectId, and
\* that is answered 200 in this step returns a parcel, and the parcel it
\* marked still exists beside the ledger entry.
C20_ConcurrentDeletion ==
  [][\A r \in Requests :
       (confirm[r].pc = "fetch" /\ confirm'[r].res.status = 200
        /\ confirm[r].upd.type = "ObjectId")
       => /\ confirm'[r].res.data # NoParcel
          /\ Exists(confirm[r].upd)
    ]_vars

====
